---- MODULE Spec2Model ----
(***************************************************************************)
(* The collaboration room broker of live_collab: server/socket-server.js   *)
(* (the Socket.IO connection handlers) seen from the requests clients      *)
(* send through src/hooks/useSocket.ts.                                    *)
(*                                                                         *)
(* The Node event loop runs one listener to completion before the next, so *)
(* every listener is one atomic action.  `sent` holds the packets that the *)
(* listener of the last processed request wrote, `last` that request.      *)
(*                                                                         *)
(* Spec      the broker.                                                   *)
(* SpecHist  the broker together with the history of the room requests of  *)
(*           each socket (lastRoomReq, leftRooms), which the broker itself *)
(*           does not keep.                                                *)
(* SpecInput the broker with join-room requests that carry an empty room   *)
(*           code or no user record; `up` tells whether the process lives. *)
(* SpecClient the broker with the local roster (roomUsers) of the client   *)
(*           behind each socket.                                           *)
(* SpecOrder the broker between the ordered channels of its sockets: inQ   *)
(*           the requests under way to it, outQ the packets written to     *)
(*           each socket.                                                  *)
(* SpecAdapter one client adapter (the state of the useSocket hook) with   *)
(*           the events of its socket.io-client socket.                    *)
(* SpecListen the listeners registered on the adapter's socket through     *)
(*           onUserJoined ... onCommentReceived.                           *)
(* SpecPDF   the PDF viewing state of src/hooks/usePDF.ts.                 *)
(***************************************************************************)
EXTENDS Integers, Sequences, FiniteSets, Bags

\* ---- bounds ------------------------------------------------------------
NumSockets == 3

\* ---- value domains -----------------------------------------------------
SocketIds == 1..NumSockets
\* the room codes clients ask for: two codes, so that a socket can switch
\* rooms and a request can name a room its sender is not in
RoomCodes == {"ABC123", "XYZ"}
\* `undefined` for socket.currentRoom (never assigned) and for a request
\* that names no room
NoRoom == "undefined"
\* the empty room code, which the client's joinRoom passes on as it is
EmptyRoom == ""
\* the string values `if (socket.currentRoom && ...)` takes as false
Falsy == {NoRoom, EmptyRoom}
\* the keys the adapter's room Map can get
AllRoomCodes == RoomCodes \cup {EmptyRoom}
\* no request processed yet
NoSocket == 0
\* user records as the client's joinRoom builds them: the first carries
\* user_metadata.full_name, the second does not.
NoName == ""
Users == { [id |-> "u1", email |-> "u1@x", full_name |-> "U One"],
           [id |-> "u2", email |-> "u2@x", full_name |-> NoName] }
\* `undefined` for socket.userInfo
NoUser == [id |-> "", email |-> "", full_name |-> NoName]
UserIds == { u.id : u \in Users }
\* the users a socket's client signs in as (useAuth): the client of the
\* first socket may be any user and may change user between two joins; the
\* other clients share one user, as one user with several tabs does.
ClientUser == CHOOSE u \in Users : u.full_name /= NoName
UsersOf(c) == IF c = 1 THEN Users ELSE {ClientUser}
PageNumbers == {5}

\* the client's currentRoom and error while unset
NullRoom == "null"
NoError == "null"
\* an operation that handed nothing to socket.emit
NoRequest == [event |-> "none"]
\* the useSocket state of a mounted hook before anybody signed in
InitialHook ==
    [user |-> FALSE, socket |-> FALSE, isConnected |-> FALSE, isConnecting |-> FALSE,
     error |-> NoError, currentRoom |-> NullRoom, roomUsers |-> {}]
\* the events the on... functions register callbacks for
InboundEvents == {"user-joined", "user-left", "page-changed", "cursor-moved", "comment-received"}

\* numPages while unknown (null), the values `!prev.numPages` takes for
\* unknown, and the useState value usePDF starts from
NullPages == -1
NoPages(n) == n \in {NullPages, 0}
InitialPDF ==
    [file |-> "null", numPages |-> NullPages, currentPage |-> 1, loading |-> FALSE,
     error |-> NoError]

VARIABLES
    sockets,      \* io.sockets.sockets: ids of the connected sockets
    rooms,        \* io.sockets.adapter.rooms: room code -> Set of socket ids
    currentRoom,  \* socket.currentRoom
    userInfo,     \* socket.userInfo
    sent,         \* bag of the packets written by the listener of the last request
    last,         \* the last request processed: event name, socket, room code; for
                  \* join-room also its user record and the socket's userInfo before it
    lastRoomReq,  \* history: room of the socket's latest join-room, NoRoom after leave-room
    leftRooms,    \* history: rooms the socket sent leave-room for and has not joined again
    up,           \* the broker process is running
    roomUsers,    \* per socket: roomUsers of the client behind it (useSocket state)
    inQ,          \* per socket: requests the client has emitted, not yet processed
    outQ,         \* per socket: packets written to the socket, oldest first
    emitted,      \* per socket: page-change requests its client has emitted
    hook,         \* one client adapter: user of useAuth, socketRef.current set, and
                  \* the useState values of useSocket
    link,         \* what the adapter's socket.io-client socket is doing
    atBroker,     \* the adapter's socket has had a join-room under way to the broker
    call,         \* the last operation or socket event of the adapter: its name,
                  \* the request it handed to socket.emit, the hook state before it
    listeners,    \* per inbound event: the callbacks added with socket.on, in order
    invoked,      \* the callbacks run for the last inbound packet, in order
    pdf,          \* the PDFState of usePDF
    pdfCall       \* the last operation of usePDF and its argument

broker == <<sockets, rooms, currentRoom, userInfo, sent, last>>
hist == <<lastRoomReq, leftRooms>>
client == <<hook, link, atBroker, call, listeners, invoked>>
viewer == <<pdf, pdfCall>>
ext == <<up, roomUsers, inQ, outQ, emitted, client, viewer>>
vars == <<sockets, rooms, currentRoom, userInfo, sent, last, lastRoomReq, leftRooms,
          up, roomUsers, inQ, outQ, emitted,
          hook, link, atBroker, call, listeners, invoked, pdf, pdfCall>>

\* ---- helpers -----------------------------------------------------------
\* io.sockets.adapter.rooms.get(roomCode) || []
Members(r) == rooms[r]

\* user.user_metadata?.full_name || user.email
UserName(user) == IF user.full_name /= NoName THEN user.full_name ELSE user.email

\* Broadcast written as io.to(roomCode).emit(...): the emitting socket is not
\* excepted
BroadcastInclSender(room, except, msg) ==
    SetToBag({ [to |-> id, msg |-> msg] : id \in room })

\* socket.to(roomCode).emit(...): one packet per socket of the room, the
\* emitting socket excepted; `room` is the adapter's Set for the room code
Broadcast(room, except, msg) ==
    SetToBag({ [to |-> id, msg |-> msg] : id \in room \ {except} })

\* socket.emit(...): point-to-point
Emit(id, msg) == SetToBag({ [to |-> id, msg |-> msg] })

\* the roomUsers entry of one socket
RosterEntry(id, info) ==
    [userId |-> info[id].id, userName |-> UserName(info[id]), socketId |-> id]

\* roomUsers: Array.from(rooms.get(roomCode) || []).map(...).filter(Boolean);
\* `live` is io.sockets.sockets, `info` the userInfo of each socket
RoomUsers(room, live, info) ==
    { RosterEntry(id, info) : id \in { i \in room : i \in live /\ info[i] /= NoUser } }

\* ---- initial state -----------------------------------------------------
Init ==
    /\ sockets = {}
    /\ rooms = [r \in AllRoomCodes |-> {}]
    /\ currentRoom = [c \in SocketIds |-> NoRoom]
    /\ userInfo = [c \in SocketIds |-> NoUser]
    /\ sent = EmptyBag
    /\ last = [op |-> "init", conn |-> NoSocket, room |-> NoRoom]
    /\ lastRoomReq = [c \in SocketIds |-> NoRoom]
    /\ leftRooms = [c \in SocketIds |-> {}]
    /\ up = TRUE
    /\ roomUsers = [c \in SocketIds |-> {}]
    /\ inQ = [c \in SocketIds |-> <<>>]
    /\ outQ = [c \in SocketIds |-> <<>>]
    /\ emitted = [c \in SocketIds |-> 0]
    /\ hook = InitialHook
    /\ link = "none"
    /\ atBroker = FALSE
    /\ call = [op |-> "mount", sent |-> NoRequest, before |-> InitialHook]
    /\ listeners = [k \in InboundEvents |-> <<>>]
    /\ invoked = <<>>
    /\ pdf = InitialPDF
    /\ pdfCall = [op |-> "mount", arg |-> 0, before |-> InitialPDF]

\* ---- listeners ---------------------------------------------------------
\* io.on("connection"): a new socket object, no currentRoom, no userInfo
Connection(c) ==
    /\ c \notin sockets
    /\ sockets' = sockets \cup {c}
    /\ sent' = EmptyBag
    /\ last' = [op |-> "connection", conn |-> c, room |-> NoRoom]
    /\ UNCHANGED <<rooms, currentRoom, userInfo>>

\* JoinRoom with the notification written as socket.broadcast.emit(...): it
\* goes to every other connected socket, whatever its room
JoinRoomNotifyAll(c, roomCode, user) ==
    /\ c \in sockets
    /\ rooms' = [rooms EXCEPT ![roomCode] = @ \cup {c}]
    /\ currentRoom' = [currentRoom EXCEPT ![c] = roomCode]
    /\ userInfo' = [userInfo EXCEPT ![c] = user]
    /\ sent' = Broadcast(sockets, c,
                         [event |-> "user-joined", userId |-> user.id,
                          userName |-> UserName(user)])
               (+) Emit(c, [event |-> "room-users",
                            users |-> RoomUsers(rooms'[roomCode], sockets, userInfo')])
    /\ last' = [op |-> "join-room", conn |-> c, room |-> roomCode,
                user |-> user, prev |-> userInfo[c]]
    /\ UNCHANGED sockets

\* JoinRoom without socket.join(roomCode): the socket records the room but is
\* never put into the adapter's Set
JoinRoomNoAdapterJoin(c, roomCode, user) ==
    /\ c \in sockets
    /\ currentRoom' = [currentRoom EXCEPT ![c] = roomCode]
    /\ userInfo' = [userInfo EXCEPT ![c] = user]
    /\ sent' = Broadcast(rooms[roomCode], c,
                         [event |-> "user-joined", userId |-> user.id,
                          userName |-> UserName(user)])
               (+) Emit(c, [event |-> "room-users",
                            users |-> RoomUsers(rooms[roomCode], sockets, userInfo')])
    /\ last' = [op |-> "join-room", conn |-> c, room |-> roomCode,
                user |-> user, prev |-> userInfo[c]]
    /\ UNCHANGED <<sockets, rooms>>

\* JoinRoom written as `socket.userInfo = socket.userInfo || user`: the
\* identity of the first join-room is kept
JoinRoomKeepFirstUser(c, roomCode, user) ==
    /\ c \in sockets
    /\ rooms' = [rooms EXCEPT ![roomCode] = @ \cup {c}]
    /\ currentRoom' = [currentRoom EXCEPT ![c] = roomCode]
    /\ userInfo' = [userInfo EXCEPT ![c] = IF @ = NoUser THEN user ELSE @]
    /\ sent' = Broadcast(rooms'[roomCode], c,
                         [event |-> "user-joined", userId |-> user.id,
                          userName |-> UserName(user)])
               (+) Emit(c, [event |-> "room-users",
                            users |-> RoomUsers(rooms'[roomCode], sockets, userInfo')])
    /\ last' = [op |-> "join-room", conn |-> c, room |-> roomCode,
                user |-> user, prev |-> userInfo[c]]
    /\ UNCHANGED sockets

\* socket.on("join-room")
JoinRoom(c, roomCode, user) ==
    /\ c \in sockets
    /\ rooms' = [rooms EXCEPT ![roomCode] = @ \cup {c}]
    /\ currentRoom' = [currentRoom EXCEPT ![c] = roomCode]
    /\ userInfo' = [userInfo EXCEPT ![c] = user]
    /\ sent' = Broadcast(rooms'[roomCode], c,
                         [event |-> "user-joined", userId |-> user.id,
                          userName |-> UserName(user)])
               (+) Emit(c, [event |-> "room-users",
                            users |-> RoomUsers(rooms'[roomCode], sockets, userInfo')])
    /\ last' = [op |-> "join-room", conn |-> c, room |-> roomCode,
                user |-> user, prev |-> userInfo[c]]
    /\ UNCHANGED sockets

\* socket.on("page-change")
PageChange(c, roomCode, pageNumber, userId) ==
    /\ c \in sockets
    /\ sent' = Broadcast(rooms[roomCode], c,
                         [event |-> "page-changed", pageNumber |-> pageNumber,
                          userId |-> userId])
    /\ last' = [op |-> "page-change", conn |-> c, room |-> roomCode]
    /\ UNCHANGED <<sockets, rooms, currentRoom, userInfo>>

\* socket.on("cursor-move")
CursorMove(c, roomCode, userId) ==
    /\ c \in sockets
    /\ sent' = Broadcast(rooms[roomCode], c,
                         [event |-> "cursor-moved", userId |-> userId,
                          socketId |-> c])
    /\ last' = [op |-> "cursor-move", conn |-> c, room |-> roomCode]
    /\ UNCHANGED <<sockets, rooms, currentRoom, userInfo>>

\* socket.on("comment-added"): the comment is passed through as received
CommentAdded(c, roomCode, comment) ==
    /\ c \in sockets
    /\ sent' = Broadcast(rooms[roomCode], c,
                         [event |-> "comment-received", comment |-> comment])
    /\ last' = [op |-> "comment-added", conn |-> c, room |-> roomCode]
    /\ UNCHANGED <<sockets, rooms, currentRoom, userInfo>>

\* "leave-room", which the client's leaveRoom emits: the server registers no
\* listener for it, so the packet reaches no code.
LeaveRoom(c, roomCode) ==
    /\ c \in sockets
    /\ sent' = EmptyBag
    /\ last' = [op |-> "leave-room", conn |-> c, room |-> roomCode]
    /\ UNCHANGED <<sockets, rooms, currentRoom, userInfo>>

\* Disconnect with the socket left in the adapter's Sets (no clean-up of the
\* rooms on close)
DisconnectKeepRooms(c) ==
    /\ c \in sockets
    /\ sockets' = sockets \ {c}
    /\ sent' = IF currentRoom[c] \notin Falsy /\ userInfo[c] /= NoUser
               THEN Broadcast(rooms[currentRoom[c]], c,
                              [event |-> "user-left", userId |-> userInfo[c].id,
                               userName |-> UserName(userInfo[c])])
               ELSE EmptyBag
    /\ last' = [op |-> "disconnect", conn |-> c, room |-> currentRoom[c]]
    /\ currentRoom' = [currentRoom EXCEPT ![c] = NoRoom]
    /\ userInfo' = [userInfo EXCEPT ![c] = NoUser]
    /\ UNCHANGED rooms

\* socket.on("disconnect"): Socket.IO has taken the socket out of every room
\* and out of io.sockets.sockets when the listener runs, and it runs the
\* listener once per socket.  The socket object is garbage afterwards.
Disconnect(c) ==
    /\ c \in sockets
    /\ sockets' = sockets \ {c}
    /\ rooms' = [r \in AllRoomCodes |-> rooms[r] \ {c}]
    /\ sent' = IF currentRoom[c] \notin Falsy /\ userInfo[c] /= NoUser
               THEN Broadcast(rooms'[currentRoom[c]], c,
                              [event |-> "user-left", userId |-> userInfo[c].id,
                               userName |-> UserName(userInfo[c])])
               ELSE EmptyBag
    /\ last' = [op |-> "disconnect", conn |-> c, room |-> currentRoom[c]]
    /\ currentRoom' = [currentRoom EXCEPT ![c] = NoRoom]
    /\ userInfo' = [userInfo EXCEPT ![c] = NoUser]

\* socket.on("error"): logs only
Error(c) ==
    /\ c \in sockets
    /\ sent' = EmptyBag
    /\ last' = [op |-> "error", conn |-> c, room |-> NoRoom]
    /\ UNCHANGED <<sockets, rooms, currentRoom, userInfo>>

Next ==
    \/ \E c \in SocketIds : Connection(c) /\ UNCHANGED <<hist, ext>>
    \/ \E c \in SocketIds, r \in RoomCodes : \E u \in UsersOf(c) : JoinRoom(c, r, u) /\ UNCHANGED <<hist, ext>>
    \/ \E c \in SocketIds, r \in RoomCodes, p \in PageNumbers, u \in UserIds :
          PageChange(c, r, p, u) /\ UNCHANGED <<hist, ext>>
    \/ \E c \in SocketIds, r \in RoomCodes, u \in UserIds : CursorMove(c, r, u) /\ UNCHANGED <<hist, ext>>
    \/ \E c \in SocketIds, r \in RoomCodes : CommentAdded(c, r, "comment") /\ UNCHANGED <<hist, ext>>
    \/ \E c \in SocketIds, r \in RoomCodes : LeaveRoom(c, r) /\ UNCHANGED <<hist, ext>>
    \/ \E c \in SocketIds : Disconnect(c) /\ UNCHANGED <<hist, ext>>
    \/ \E c \in SocketIds : Error(c) /\ UNCHANGED <<hist, ext>>

Spec == Init /\ [][Next]_vars

\* ---- the broker with the history of each socket's room requests ----------
\* The client's joinRoom sets its currentRoom to the room it asks for, its
\* leaveRoom and its disconnect handler reset it: lastRoomReq is that value
\* in the order the broker processes the requests.
HistJoin(c, roomCode) ==
    /\ lastRoomReq' = [lastRoomReq EXCEPT ![c] = roomCode]
    /\ leftRooms' = [leftRooms EXCEPT ![c] = @ \ {roomCode}]

HistLeave(c, roomCode) ==
    /\ lastRoomReq' = [lastRoomReq EXCEPT ![c] = NoRoom]
    /\ leftRooms' = [leftRooms EXCEPT ![c] = @ \cup {roomCode}]

HistClose(c) ==
    /\ lastRoomReq' = [lastRoomReq EXCEPT ![c] = NoRoom]
    /\ leftRooms' = [leftRooms EXCEPT ![c] = {}]

\* The requests are those the repository's client sends: leaveRoom emits
\* leave-room only while its currentRoom is set, and names that room; every
\* request of a client carries the one signed-in user.
NextHist ==
    \/ \E c \in SocketIds : Connection(c) /\ UNCHANGED <<hist, ext>>
    \/ \E c \in SocketIds, r \in RoomCodes : JoinRoom(c, r, ClientUser) /\ HistJoin(c, r) /\ UNCHANGED ext
    \/ \E c \in SocketIds, r \in RoomCodes, p \in PageNumbers :
          PageChange(c, r, p, ClientUser.id) /\ UNCHANGED <<hist, ext>>
    \/ \E c \in SocketIds, r \in RoomCodes : CursorMove(c, r, ClientUser.id) /\ UNCHANGED <<hist, ext>>
    \/ \E c \in SocketIds, r \in RoomCodes : CommentAdded(c, r, "comment") /\ UNCHANGED <<hist, ext>>
    \/ \E c \in SocketIds, r \in RoomCodes :
          lastRoomReq[c] = r /\ LeaveRoom(c, r) /\ HistLeave(c, r) /\ UNCHANGED ext
    \/ \E c \in SocketIds : Disconnect(c) /\ HistClose(c) /\ UNCHANGED ext
    \/ \E c \in SocketIds : Error(c) /\ UNCHANGED <<hist, ext>>

SpecHist == Init /\ [][NextHist]_vars

\* ---- the broker with ill-formed join-room requests ------------------------
\* join-room whose payload has no user record: `user.email` of the
\* listener's first statement throws a TypeError before the socket joins
\* anything. Nothing in socket-server.js catches it; what becomes of the
\* process is decided by whoever handles uncaught exceptions around it, so
\* both outcomes are kept: the exception ends the process and with it every
\* connection, or it is logged and the request is lost. No packet is written
\* in either.
JoinRoomThrows(c, roomCode) ==
    /\ c \in sockets
    /\ sent' = EmptyBag
    /\ last' = [op |-> "join-room", conn |-> c, room |-> roomCode,
                user |-> NoUser, prev |-> userInfo[c]]
    /\ \/ /\ up' = FALSE
          /\ sockets' = {}
          /\ rooms' = [r \in AllRoomCodes |-> {}]
          /\ currentRoom' = [d \in SocketIds |-> NoRoom]
          /\ userInfo' = [d \in SocketIds |-> NoUser]
       \/ /\ up' = TRUE
          /\ UNCHANGED <<sockets, rooms, currentRoom, userInfo>>

\* the room codes of the requests: a well-formed one and the empty string
InputRooms == {"ABC123", EmptyRoom}

NextInput ==
    \/ \E c \in SocketIds : up /\ Connection(c) /\ UNCHANGED <<hist, ext>>
    \/ \E c \in SocketIds, r \in InputRooms :
          up /\ JoinRoom(c, r, ClientUser) /\ UNCHANGED <<hist, ext>>
    \/ \E c \in SocketIds, r \in InputRooms :
          up /\ JoinRoomThrows(c, r) /\ UNCHANGED <<hist, roomUsers, inQ, outQ, emitted, client, viewer>>
    \/ \E c \in SocketIds, r \in InputRooms, p \in PageNumbers :
          up /\ PageChange(c, r, p, ClientUser.id) /\ UNCHANGED <<hist, ext>>
    \/ \E c \in SocketIds : up /\ Disconnect(c) /\ UNCHANGED <<hist, ext>>

SpecInput == Init /\ [][NextInput]_vars

\* ---- the broker with the roster of each client ----------------------------
\* setRoomUsers of the USER_JOINED handler: the entries of that userId are
\* dropped and the user of the notification is appended. An entry of that
\* userId occurs once after it, and ROOM_USERS holds one entry per socket,
\* so the array never repeats an entry and is kept as a set.
OnUserJoined(prev, user) == { u \in prev : u.userId /= user.userId } \cup {user}

\* setRoomUsers of the USER_LEFT handler
OnUserLeft(prev, user) == { u \in prev : u.userId /= user.userId }

\* setRoomUsers of the ROOM_USERS handler
OnRoomUsers(prev, users) == users

\* the roomUsers of a client after the handler of one packet has run
OnPacket(prev, msg) ==
    CASE msg.event = "user-joined" ->
            OnUserJoined(prev, [userId |-> msg.userId, userName |-> msg.userName])
      [] msg.event = "user-left" ->
            OnUserLeft(prev, [userId |-> msg.userId, userName |-> msg.userName])
      [] msg.event = "room-users" -> OnRoomUsers(prev, msg.users)
      [] OTHER -> prev

\* the roomUsers of the client behind socket d once it has handled what the
\* request wrote to d; a join-room or a disconnect writes it one packet at most
Receive(prev, out, d) ==
    LET P == { m \in BagToSet(out) : m.to = d }
    IN IF P = {} THEN prev ELSE OnPacket(prev, (CHOOSE m \in P : TRUE).msg)

\* every client handles the packets of the request
Delivered == roomUsers' = [d \in SocketIds |-> Receive(roomUsers[d], sent', d)]

\* the DISCONNECT handler of the client behind c empties its roomUsers; the
\* other clients handle the user-left notice
DeliveredAfterClose(c) ==
    roomUsers' = [d \in SocketIds |->
                    IF d = c THEN {} ELSE Receive(roomUsers[d], sent', d)]

NextClient ==
    \/ \E c \in SocketIds : Connection(c) /\ UNCHANGED <<hist, ext>>
    \/ \E c \in SocketIds, r \in RoomCodes : \E u \in UsersOf(c) :
          JoinRoom(c, r, u) /\ Delivered /\ UNCHANGED <<hist, up, inQ, outQ, emitted, client, viewer>>
    \/ \E c \in SocketIds :
          Disconnect(c) /\ DeliveredAfterClose(c) /\ UNCHANGED <<hist, up, inQ, outQ, emitted, client, viewer>>

SpecClient == Init /\ [][NextClient]_vars

\* ---- the broker between the channels of its sockets -----------------------
\* Socket.IO carries the packets of one connection in the order they were
\* emitted, in both directions; a listener of the broker runs to its end
\* before the next packet is dispatched.

\* the room of the requests, and the page-change requests one client emits
OrderRoom == "ABC123"
MaxEmits == 2
\* the sockets whose clients emit page-change; every socket is a peer
Senders == {1, 2}

\* socketRef.current.emit(event, data): the request goes last on the channel
Emitted(q, req) == Append(q, req)

\* joinRoom of the client behind socket c
ClientJoinRoom(c, roomCode) ==
    /\ c \in sockets
    /\ inQ' = [inQ EXCEPT ![c] = Emitted(@, [op |-> "join-room", room |-> roomCode,
                                              user |-> ClientUser])]
    /\ UNCHANGED <<broker, outQ, emitted>>

\* emitPageChange of the client behind socket c
ClientEmitPageChange(c, roomCode, pageNumber) ==
    /\ c \in sockets
    /\ inQ' = [inQ EXCEPT ![c] = Emitted(@, [op |-> "page-change", room |-> roomCode,
                                              pageNumber |-> pageNumber,
                                              userId |-> ClientUser.id])]
    /\ emitted' = [emitted EXCEPT ![c] = @ + 1]
    /\ UNCHANGED <<broker, outQ>>

\* the channel to socket d after the listener run for socket c has emitted
\* the packets of `out`: emit writes the packet at once, behind those
\* written before; `from` keeps which socket's request it answers
WrittenFirst(q, out, c, d) ==
    LET P == { m \in BagToSet(out) : m.to = d }
    IN IF P = {} THEN q ELSE <<[from |-> c, msg |-> (CHOOSE m \in P : TRUE).msg]>> \o q

Written(q, out, c, d) ==
    LET P == { m \in BagToSet(out) : m.to = d }
    IN IF P = {} THEN q ELSE Append(q, [from |-> c, msg |-> (CHOOSE m \in P : TRUE).msg])

\* the broker takes the oldest request of socket c and runs its listener
Dispatched(c) ==
    /\ inQ' = [inQ EXCEPT ![c] = Tail(@)]
    /\ outQ' = [d \in SocketIds |-> Written(outQ[d], sent', c, d)]
    /\ UNCHANGED emitted

NextOrder ==
    \/ \E c \in SocketIds : Connection(c) /\ UNCHANGED <<hist, ext>>
    \/ \E c \in SocketIds :
          /\ OrderRoom \notin { q.room : q \in { inQ[c][i] : i \in DOMAIN inQ[c] } }
          /\ c \notin Members(OrderRoom)
          /\ ClientJoinRoom(c, OrderRoom)
          /\ UNCHANGED <<hist, up, roomUsers, client, viewer>>
    \/ \E c \in Senders :
          /\ emitted[c] < MaxEmits
          /\ ClientEmitPageChange(c, OrderRoom, emitted[c] + 1)
          /\ UNCHANGED <<hist, up, roomUsers, client, viewer>>
    \/ \E c \in SocketIds :
          /\ inQ[c] /= <<>> /\ Head(inQ[c]).op = "join-room"
          /\ JoinRoom(c, Head(inQ[c]).room, Head(inQ[c]).user)
          /\ Dispatched(c)
          /\ UNCHANGED <<hist, up, roomUsers, client, viewer>>
    \/ \E c \in SocketIds :
          /\ inQ[c] /= <<>> /\ Head(inQ[c]).op = "page-change"
          /\ PageChange(c, Head(inQ[c]).room, Head(inQ[c]).pageNumber, Head(inQ[c]).userId)
          /\ Dispatched(c)
          /\ UNCHANGED <<hist, up, roomUsers, client, viewer>>

SpecOrder == Init /\ [][NextOrder]_vars

\* ---- one client adapter: the useSocket hook --------------------------------
\* The hook's operations and the listeners initializeSocket puts on its
\* socket, each run to its end. `link` follows the socket.io-client socket:
\* "none" (no socket), "opening" (first handshake pending), "open",
\* "reconnecting" (the manager retries, reconnection: true) and "failed" (it
\* gave up after reconnectionAttempts, or the server closed the connection).

\* what an operation and a socket event leave in hook and call
Ran(op, request, h) ==
    /\ hook' = h
    /\ call' = [op |-> op, sent |-> request, before |-> hook]

\* the CONNECT listener
ConnectHandler(h) ==
    [h EXCEPT !.isConnected = TRUE, !.isConnecting = FALSE, !.error = NoError]

\* the DISCONNECT listener
DisconnectHandler(h) ==
    [h EXCEPT !.isConnected = FALSE, !.isConnecting = FALSE,
              !.currentRoom = NullRoom, !.roomUsers = {}]

\* the CONNECT_ERROR listener
ConnectErrorHandler(h) ==
    [h EXCEPT !.isConnecting = FALSE, !.error = "Failed to connect to collaboration server"]

\* cleanup: socket.disconnect() runs the DISCONNECT listener only if the
\* socket is connected; then socketRef.current = null and three setters
cleanup(h, l) ==
    [(IF h.socket /\ l = "open" THEN DisconnectHandler(h) ELSE h)
        EXCEPT !.socket = FALSE, !.isConnected = FALSE,
               !.currentRoom = NullRoom, !.roomUsers = {}]

\* initializeSocket, the adapter's connect
initializeSocket ==
    IF ~hook.user \/ hook.socket
    THEN /\ Ran("initializeSocket", NoRequest, hook)
         /\ UNCHANGED <<link, atBroker, listeners>>
    ELSE /\ Ran("initializeSocket", NoRequest,
                [hook EXCEPT !.isConnecting = TRUE, !.error = NoError, !.socket = TRUE])
         /\ link' = "opening"
         /\ atBroker' = FALSE
         /\ listeners' = [k \in InboundEvents |-> <<>>]

\* useAuth hands the hook another user: the effect's cleanup runs, then the
\* effect: initializeSocket for a user, cleanup for none
SetUser(u) ==
    /\ u /= hook.user
    /\ LET h == [cleanup(hook, link) EXCEPT !.user = u]
       IN IF u
          THEN /\ Ran("signIn", NoRequest,
                      [h EXCEPT !.isConnecting = TRUE, !.error = NoError, !.socket = TRUE])
               /\ link' = "opening"
          ELSE /\ Ran("signOut", NoRequest, cleanup(h, "none"))
               /\ link' = "none"
    /\ atBroker' = FALSE
    /\ listeners' = [k \in InboundEvents |-> <<>>]

\* the handshake succeeds
OnConnect ==
    /\ hook.socket /\ link \in {"opening", "reconnecting"}
    /\ Ran("connect", NoRequest, ConnectHandler(hook))
    /\ link' = "open"
    /\ UNCHANGED <<atBroker, listeners>>

\* the handshake fails; the manager tries again or gives up
OnConnectError(next) ==
    /\ hook.socket /\ link \in {"opening", "reconnecting"}
    /\ Ran("connect_error", NoRequest, ConnectErrorHandler(hook))
    /\ link' = next
    /\ UNCHANGED <<atBroker, listeners>>

\* the connection drops without cleanup
OnDisconnect(next) ==
    /\ hook.socket /\ link = "open"
    /\ Ran("disconnect", NoRequest, DisconnectHandler(hook))
    /\ link' = next
    /\ atBroker' = FALSE
    /\ UNCHANGED listeners

joinRoom(roomCode) ==
    /\ IF ~hook.socket \/ ~hook.user
       THEN Ran("joinRoom", NoRequest, hook) /\ UNCHANGED atBroker
       ELSE /\ Ran("joinRoom", [event |-> "join-room", roomCode |-> roomCode],
                   [hook EXCEPT !.currentRoom = roomCode])
            /\ atBroker' = TRUE
    /\ UNCHANGED <<link, listeners>>

leaveRoom ==
    /\ IF ~hook.socket \/ hook.currentRoom = NullRoom
       THEN Ran("leaveRoom", NoRequest, hook)
       ELSE Ran("leaveRoom", [event |-> "leave-room", roomCode |-> hook.currentRoom],
                [hook EXCEPT !.currentRoom = NullRoom, !.roomUsers = {}])
    /\ UNCHANGED <<link, atBroker, listeners>>

emitPageChange(roomCode, pageNumber) ==
    /\ IF ~hook.socket \/ ~hook.user
       THEN Ran("emitPageChange", NoRequest, hook)
       ELSE Ran("emitPageChange", [event |-> "page-change", roomCode |-> roomCode], hook)
    /\ UNCHANGED <<link, atBroker, listeners>>

emitCursorMove(roomCode) ==
    /\ IF ~hook.socket \/ ~hook.user
       THEN Ran("emitCursorMove", NoRequest, hook)
       ELSE Ran("emitCursorMove", [event |-> "cursor-move", roomCode |-> roomCode], hook)
    /\ UNCHANGED <<link, atBroker, listeners>>

emitComment(roomCode) ==
    /\ IF ~hook.socket
       THEN Ran("emitComment", NoRequest, hook)
       ELSE Ran("emitComment", [event |-> "comment-added", roomCode |-> roomCode], hook)
    /\ UNCHANGED <<link, atBroker, listeners>>

\* a roster packet of the broker arrives: they go to the sockets the broker
\* holds in a room, which takes a join-room and an open connection
OnRoomPacket(msg) ==
    /\ hook.socket /\ link = "open" /\ atBroker
    /\ Ran(msg.event, NoRequest, [hook EXCEPT !.roomUsers = OnPacket(@, msg)])
    /\ UNCHANGED <<link, atBroker, listeners>>

\* the roster packets that arrive
RoomPackets ==
    { [event |-> "user-joined", userId |-> "u2", userName |-> "u2@x"],
      [event |-> "user-left", userId |-> "u2", userName |-> "u2@x"],
      [event |-> "room-users",
       users |-> { [userId |-> "u1", userName |-> "U One", socketId |-> 1] }] }

NextAdapter ==
    \/ \E u \in BOOLEAN : SetUser(u) /\ UNCHANGED <<broker, hist, up, roomUsers, inQ, outQ, emitted, invoked, viewer>>
    \/ initializeSocket /\ UNCHANGED <<broker, hist, up, roomUsers, inQ, outQ, emitted, invoked, viewer>>
    \/ OnConnect /\ UNCHANGED <<broker, hist, up, roomUsers, inQ, outQ, emitted, invoked, viewer>>
    \/ \E n \in {"reconnecting", "failed"} :
          OnConnectError(n) /\ UNCHANGED <<broker, hist, up, roomUsers, inQ, outQ, emitted, invoked, viewer>>
    \/ \E n \in {"reconnecting", "failed"} :
          OnDisconnect(n) /\ UNCHANGED <<broker, hist, up, roomUsers, inQ, outQ, emitted, invoked, viewer>>
    \/ \E r \in RoomCodes : joinRoom(r) /\ UNCHANGED <<broker, hist, up, roomUsers, inQ, outQ, emitted, invoked, viewer>>
    \/ leaveRoom /\ UNCHANGED <<broker, hist, up, roomUsers, inQ, outQ, emitted, invoked, viewer>>
    \/ \E r \in RoomCodes, p \in PageNumbers :
          emitPageChange(r, p) /\ UNCHANGED <<broker, hist, up, roomUsers, inQ, outQ, emitted, invoked, viewer>>
    \/ \E r \in RoomCodes : emitCursorMove(r) /\ UNCHANGED <<broker, hist, up, roomUsers, inQ, outQ, emitted, invoked, viewer>>
    \/ \E r \in RoomCodes : emitComment(r) /\ UNCHANGED <<broker, hist, up, roomUsers, inQ, outQ, emitted, invoked, viewer>>
    \/ \E m \in RoomPackets : OnRoomPacket(m) /\ UNCHANGED <<broker, hist, up, roomUsers, inQ, outQ, emitted, invoked, viewer>>

SpecAdapter == Init /\ [][NextAdapter]_vars

\* ---- the callbacks of the adapter's socket ---------------------------------
\* the callbacks a caller holds, and how many one event is given at most
Callbacks == {"cb1", "cb2"}
MaxListeners == 2
\* the events callbacks are registered for here
ListenEvents == {"user-joined", "page-changed"}

\* onUserJoined ... onCommentReceived: socketRef.current.on(event, callback)
\* adds the callback behind those the event has, whether or not it is one
\* of them; without a socket the call does nothing
on(event, callback) ==
    /\ listeners' = IF hook.socket
                    THEN [listeners EXCEPT ![event] = Append(@, callback)]
                    ELSE listeners
    /\ call' = [op |-> "on", sent |-> NoRequest, before |-> hook]
    /\ UNCHANGED <<hook, link, atBroker, invoked>>

\* a packet of the broker arrives: the hook's own listener of the event
\* runs, then every callback added for it, in the order they were added
Inbound(msg) ==
    /\ hook.socket /\ link = "open" /\ atBroker
    /\ Ran(msg.event, NoRequest, [hook EXCEPT !.roomUsers = OnPacket(@, msg)])
    /\ invoked' = listeners[msg.event]
    /\ UNCHANGED <<link, atBroker, listeners>>

\* the packets that arrive
InboundPackets ==
    { [event |-> "user-joined", userId |-> "u2", userName |-> "u2@x"],
      [event |-> "page-changed", pageNumber |-> 5, userId |-> "u2"] }

NextListen ==
    \/ \E u \in BOOLEAN : SetUser(u) /\ UNCHANGED <<broker, hist, up, roomUsers, inQ, outQ, emitted, invoked, viewer>>
    \/ OnConnect /\ UNCHANGED <<broker, hist, up, roomUsers, inQ, outQ, emitted, invoked, viewer>>
    \/ joinRoom(OrderRoom) /\ UNCHANGED <<broker, hist, up, roomUsers, inQ, outQ, emitted, invoked, viewer>>
    \/ \E e \in ListenEvents, cb \in Callbacks :
          /\ Len(listeners[e]) < MaxListeners
          /\ on(e, cb)
          /\ UNCHANGED <<broker, hist, up, roomUsers, inQ, outQ, emitted, viewer>>
    \/ \E m \in InboundPackets :
          Inbound(m) /\ UNCHANGED <<broker, hist, up, roomUsers, inQ, outQ, emitted, viewer>>

SpecListen == Init /\ [][NextListen]_vars

\* ---- the PDF viewing state: the usePDF hook --------------------------------
\* the page counts of the documents, and the documents
MaxPages == 3
FileUrls == {"a.pdf", "b.pdf"}

\* what an operation leaves in pdf and pdfCall
Viewed(op, arg, p) ==
    /\ pdf' = p
    /\ pdfCall' = [op |-> op, arg |-> arg, before |-> pdf]

\* loadDocument that keeps the page of the document before
loadDocumentKeepPage(fileUrl) ==
    Viewed("loadDocument", 0,
           [pdf EXCEPT !.file = fileUrl, !.loading = TRUE, !.error = NoError,
                       !.numPages = NullPages])

loadDocument(fileUrl) ==
    Viewed("loadDocument", 0,
           [pdf EXCEPT !.file = fileUrl, !.loading = TRUE, !.error = NoError,
                       !.currentPage = 1, !.numPages = NullPages])

onDocumentLoadSuccess(numPages) ==
    Viewed("onDocumentLoadSuccess", numPages,
           [pdf EXCEPT !.numPages = numPages, !.loading = FALSE, !.error = NoError])

onDocumentLoadError ==
    Viewed("onDocumentLoadError", 0,
           [pdf EXCEPT !.loading = FALSE, !.error = "Failed to load PDF",
                       !.numPages = NullPages])

goToPage(pageNumber) ==
    Viewed("goToPage", pageNumber,
           IF NoPages(pdf.numPages) \/ pageNumber < 1 \/ pageNumber > pdf.numPages
           THEN pdf
           ELSE [pdf EXCEPT !.currentPage = pageNumber])

nextPage ==
    Viewed("nextPage", 0,
           IF NoPages(pdf.numPages) \/ pdf.currentPage >= pdf.numPages
           THEN pdf
           ELSE [pdf EXCEPT !.currentPage = @ + 1])

previousPage ==
    Viewed("previousPage", 0,
           IF pdf.currentPage <= 1 THEN pdf ELSE [pdf EXCEPT !.currentPage = @ - 1])

\* the hook's functions are called in any order; react-pdf reports a page
\* count of one page at least
NextPDF ==
    \/ \E f \in FileUrls : loadDocument(f) /\ UNCHANGED <<broker, hist, up, roomUsers, inQ, outQ, emitted, client>>
    \/ \E n \in 1..MaxPages :
          onDocumentLoadSuccess(n) /\ UNCHANGED <<broker, hist, up, roomUsers, inQ, outQ, emitted, client>>
    \/ onDocumentLoadError /\ UNCHANGED <<broker, hist, up, roomUsers, inQ, outQ, emitted, client>>
    \/ \E n \in 0..(MaxPages + 1) :
          goToPage(n) /\ UNCHANGED <<broker, hist, up, roomUsers, inQ, outQ, emitted, client>>
    \/ nextPage /\ UNCHANGED <<broker, hist, up, roomUsers, inQ, outQ, emitted, client>>
    \/ previousPage /\ UNCHANGED <<broker, hist, up, roomUsers, inQ, outQ, emitted, client>>

SpecPDF == Init /\ [][NextPDF]_vars

\* ---- observations on the packets of the last request ---------------------
RouteOps == {"page-change", "cursor-move", "comment-added"}

\* the server-to-client event a routed request produces
RoutedEvent(op) ==
    CASE op = "page-change" -> "page-changed"
      [] op = "cursor-move" -> "cursor-moved"
      [] op = "comment-added" -> "comment-received"
      [] OTHER -> "none"

RoomEvents == {"page-changed", "cursor-moved", "comment-received", "user-joined", "user-left"}

\* the packets of event `ev` that bag `out` holds for socket d
PacketsTo(out, d, ev) == { m \in BagToSet(out) : m.to = d /\ m.msg.event = ev }

\* the number of copies bag `out` holds of the packets in S
RECURSIVE SumCopies(_, _)
SumCopies(out, S) ==
    IF S = {} THEN 0
    ELSE LET m == CHOOSE x \in S : TRUE IN CopiesIn(m, out) + SumCopies(out, S \ {m})

\* how many packets of event `ev` bag `out` holds for socket d
NumIn(out, d, ev) == SumCopies(out, PacketsTo(out, d, ev))

\* how many of them name user id `uid`
NumNamingIn(out, d, ev, uid) ==
    SumCopies(out, { m \in PacketsTo(out, d, ev) : m.msg.userId = uid })

\* the same for the packets of the last request
NumReceived(d, ev) == NumIn(sent, d, ev)

\* ---- C1 ----------------------------------------------------------------
\* C1: the member set of every room R is exactly the set of open connections
\* whose most recent room request was join-room for R and that have not
\* since sent leave-room or disconnected.
C1_MembersAreLatestJoiners ==
    \A r \in RoomCodes : Members(r) = { c \in sockets : lastRoomReq[c] = r }

\* ---- C2 ----------------------------------------------------------------
\* C2: every connection is a member of at most one room; a join-room for
\* another room ends the membership of the previous one.
C2_AtMostOneRoom ==
    \A c \in SocketIds : Cardinality({ r \in RoomCodes : c \in Members(r) }) <= 1

\* ---- C3 ----------------------------------------------------------------
\* C3: when a member A of room R sends page-change, cursor-move or
\* comment-added for R, the page-changed / cursor-moved / comment-received
\* packet goes exactly once to every member of R other than A, and to
\* nobody else (not to A, not to a socket outside R).
C3_RoutedToOtherMembers ==
    (last.op \in RouteOps /\ last.conn \in Members(last.room)) =>
        \A d \in SocketIds :
            NumReceived(d, RoutedEvent(last.op)) =
                IF d \in Members(last.room) \ {last.conn} THEN 1 ELSE 0

\* a member of a room of three has just sent page-change for it, with a
\* socket connected outside that room: two packets went out
C3_Witness ==
    /\ last.op = "page-change"
    /\ last.conn \in Members(last.room)
    /\ Cardinality(Members(last.room)) = 3
    /\ BagCardinality(sent) = 2

\* ---- C4 ----------------------------------------------------------------
\* C4: a page-change, cursor-move or comment-added that names a room the
\* sender is not a member of is dropped: no page-changed, cursor-moved or
\* comment-received packet is sent to anyone.
C4_NonMemberRequestDropped ==
    (last.op \in RouteOps /\ last.conn \notin Members(last.room)) =>
        \A d \in SocketIds : NumReceived(d, RoutedEvent(last.op)) = 0

\* ---- C5 ----------------------------------------------------------------
\* C5: the room-users reply to a join-room for R goes to the joiner only and
\* lists one entry per member of R, the joiner included, and no entry for a
\* connection that has left R (sent leave-room for it) or has disconnected.
C5_RosterIsCurrent ==
    last.op = "join-room" =>
        /\ \A d \in SocketIds :
              NumReceived(d, "room-users") = IF d = last.conn THEN 1 ELSE 0
        /\ \A m \in PacketsTo(sent, last.conn, "room-users") :
              /\ \A c \in SocketIds :
                    Cardinality({ e \in m.msg.users : e.socketId = c }) =
                        IF c \in Members(last.room) THEN 1 ELSE 0
              /\ \A e \in m.msg.users :
                    /\ e.socketId \in sockets
                    /\ last.room \notin leftRooms[e.socketId]

\* ---- C6 ----------------------------------------------------------------
\* C6: on join-room for R, user-joined goes exactly once to every connection
\* that was a member of R before the request, the joiner excepted, and to no
\* other connection; with no other member nobody gets a user-joined.
C6_UserJoinedToPriorMembers ==
    [][ last'.op = "join-room" =>
          \A d \in SocketIds :
              NumIn(sent', d, "user-joined") =
                  IF d \in Members(last'.room) \ {last'.conn} THEN 1 ELSE 0 ]_vars

\* a socket has just joined a room that had two other members: both were
\* sent user-joined, the joiner only its room-users reply
C6_Witness ==
    /\ last.op = "join-room"
    /\ Cardinality(Members(last.room)) = 3
    /\ \A d \in Members(last.room) \ {last.conn} : NumReceived(d, "user-joined") = 1
    /\ NumReceived(last.conn, "user-joined") = 0
    /\ BagCardinality(sent) = 3

\* ---- C7 ----------------------------------------------------------------
\* C7: when a member of a room with more than one member sends leave-room,
\* each remaining member is sent exactly one user-left naming the leaver.
C7_LeaveRoomNotifiesRemaining ==
    [][ (/\ last'.op = "leave-room"
         /\ last'.conn \in Members(last'.room)
         /\ Cardinality(Members(last'.room)) > 1) =>
          \A d \in Members(last'.room) \ {last'.conn} :
              NumNamingIn(sent', d, "user-left", userInfo[last'.conn].id) = 1 ]_vars

\* ---- C8 ----------------------------------------------------------------
\* C8: when a member B of room R disconnects without leave-room, every
\* remaining member of R is sent exactly one user-left for B, whatever error
\* events fired for B before, and B is out of R's member set afterwards.
C8_DisconnectNotifiesRemaining ==
    [][ last'.op = "disconnect" =>
          \A r \in RoomCodes :
              last'.conn \in Members(r) =>
                  /\ last'.conn \notin rooms'[r]
                  /\ \A d \in Members(r) \ {last'.conn} :
                        NumNamingIn(sent', d, "user-left", userInfo[last'.conn].id) = 1 ]_vars

\* ---- C9 ----------------------------------------------------------------
\* C9: once leave-room from C for R is processed, no page-changed,
\* cursor-moved, comment-received, user-joined or user-left of room R is
\* sent to C until C joins R again.  (last.room is the room the packets of
\* the last request were addressed to.)
C9_NoRoomPacketsAfterLeave ==
    \A c \in SocketIds, ev \in RoomEvents :
        (last.room \in RoomCodes /\ last.room \in leftRooms[c]) => NumReceived(c, ev) = 0

\* ---- C10 ---------------------------------------------------------------
\* C10: when a member of R1 sends join-room for another room R2, the
\* remaining members of R1 are sent user-left for that connection.
C10_RoomSwitchNotifiesOldRoom ==
    [][ last'.op = "join-room" =>
          \A r1 \in RoomCodes \ {last'.room} :
              last'.conn \in Members(r1) =>
                  \A d \in Members(r1) \ {last'.conn} :
                      NumNamingIn(sent', d, "user-left", userInfo[last'.conn].id) >= 1 ]_vars

\* the socket ids listed by the room-users reply sent to socket d
RosterIds(out, d) ==
    UNION { { e.socketId : e \in m.msg.users } : m \in PacketsTo(out, d, "room-users") }

\* every packet of event `ev` in bag `out` names user id `uid`
AllName(out, ev, uid) ==
    \A m \in BagToSet(out) : m.msg.event = ev => m.msg.userId = uid

\* ---- C11 ---------------------------------------------------------------
\* C11: a join-room for the room the connection is already in, with the
\* identity it is bound to, changes no membership, sends no user-joined to
\* anyone, and is answered with one room-users reply.
C11_RejoinIsNoOp ==
    [][ (/\ last'.op = "join-room"
         /\ last'.conn \in Members(last'.room)
         /\ currentRoom[last'.conn] = last'.room
         /\ userInfo[last'.conn] = last'.user) =>
          /\ rooms' = rooms
          /\ userInfo' = userInfo
          /\ \A d \in SocketIds : NumIn(sent', d, "user-joined") = 0
          /\ NumIn(sent', last'.conn, "room-users") = 1 ]_vars

\* ---- C13 ---------------------------------------------------------------
\* C13: the userId of every page-changed and cursor-moved packet is the user
\* id bound to the sending connection by its join-room, whatever userId the
\* request carried.
C13_StampedWithBoundIdentity ==
    (last.op \in {"page-change", "cursor-move"} /\ userInfo[last.conn] /= NoUser) =>
        AllName(sent, RoutedEvent(last.op), userInfo[last.conn].id)

\* ---- C16 ---------------------------------------------------------------
\* C16: a join-room by C for R puts C into R's member set at once and sends C
\* nothing but the roster; from then on, until C disconnects, every event
\* another socket routes to R is sent to C exactly once; an event routed to R
\* while C is not in R's member set is not sent to C, neither then nor by a
\* later join.
C16_NoEventLostOrReplayedAtJoin ==
    [][ /\ last'.op = "join-room" =>
              /\ last'.conn \in rooms'[last'.room]
              /\ \A d \in SocketIds, op \in RouteOps : NumIn(sent', d, RoutedEvent(op)) = 0
        /\ \A c \in SocketIds, r \in RoomCodes :
              /\ (last'.op \in RouteOps /\ last'.room = r /\ last'.conn /= c) =>
                    NumIn(sent', c, RoutedEvent(last'.op)) =
                        IF c \in Members(r) THEN 1 ELSE 0
              /\ (c \in Members(r) /\ ~(last'.op = "disconnect" /\ last'.conn = c)) =>
                    c \in rooms'[r]
              /\ (c \notin Members(r) /\ ~(last'.op = "join-room" /\ last'.conn = c
                                            /\ last'.room = r)) =>
                    c \notin rooms'[r] ]_vars

\* a cursor-move for a room was just sent to a member other than the sender,
\* once, and not to a connected socket that has not joined that room
C16_Witness ==
    /\ last.op = "cursor-move"
    /\ \E c \in Members(last.room) \ {last.conn} : NumReceived(c, "cursor-moved") = 1
    /\ \E d \in sockets \ Members(last.room) :
          d /= last.conn /\ NumReceived(d, "cursor-moved") = 0

\* ---- C17 ---------------------------------------------------------------
\* C17: a (re)connected socket is in no room and bound to nobody; a socket
\* that is disconnected or in no room is sent none of the room messages; and
\* the roster of a join-room is the member set at the time of that join.
C17_ReconnectStartsFromNothing ==
    /\ \A c \in SocketIds :
          (c \notin sockets \/ \A r \in RoomCodes : c \notin Members(r)) =>
              \A ev \in RoomEvents : NumReceived(c, ev) = 0
    /\ last.op = "connection" =>
          /\ \A r \in RoomCodes : last.conn \notin Members(r)
          /\ currentRoom[last.conn] = NoRoom
          /\ userInfo[last.conn] = NoUser
          /\ sent = EmptyBag
    /\ last.op = "join-room" => RosterIds(sent, last.conn) = Members(last.room)

\* a comment was routed to a room while another socket was connected without
\* having joined any room since its connection: it was sent nothing
C17_Witness ==
    /\ last.op = "comment-added"
    /\ BagCardinality(sent) >= 1
    /\ \E c \in sockets :
          /\ currentRoom[c] = NoRoom
          /\ \A r \in RoomCodes : c \notin Members(r)
          /\ NumReceived(c, "comment-received") = 0

\* ---- C19 ---------------------------------------------------------------
\* C19 as claimed: a join-room carrying another identity than the one bound
\* to the connection leaves the bound identity as it was.
C19_BoundIdentityKept ==
    (last.op = "join-room" /\ last.prev /= NoUser /\ last.prev /= last.user) =>
        userInfo[last.conn] = last.prev

\* C19 as amended: every join-room binds the identity it carries, also when
\* another one was bound: its user-joined and its roster entry name the new
\* identity, no other request changes the identity of a connected socket,
\* and the user-left of a disconnect names the identity bound last.
C19_LatestJoinBinds ==
    [][ /\ last'.op = "join-room" =>
              /\ userInfo'[last'.conn] = last'.user
              /\ AllName(sent', "user-joined", last'.user.id)
              /\ \A m \in PacketsTo(sent', last'.conn, "room-users") :
                    \A e \in m.msg.users :
                        e.socketId = last'.conn => e.userId = last'.user.id
        /\ last'.op = "disconnect" =>
              AllName(sent', "user-left", userInfo[last'.conn].id)
        /\ \A d \in sockets \cap sockets' :
              ~(last'.op = "join-room" /\ last'.conn = d) => userInfo'[d] = userInfo[d] ]_vars

\* a socket bound to one user has just joined as another user and is now
\* bound to that one
C19_Witness ==
    /\ last.op = "join-room"
    /\ last.prev /= NoUser
    /\ last.prev /= last.user
    /\ userInfo[last.conn] = last.user
    /\ NumReceived(last.conn, "room-users") = 1

\* ---- C20 ---------------------------------------------------------------
\* C20: a room whose last member has left or disconnected has no member, and
\* the room-users reply of the next join-room for it lists the joiner only.
C20_EmptiedRoomIsFresh ==
    /\ \A r \in RoomCodes :
          { c \in sockets : lastRoomReq[c] = r } = {} => Members(r) = {}
    /\ (last.op = "join-room" /\ { c \in sockets : lastRoomReq[c] = last.room } = {last.conn}) =>
          RosterIds(sent, last.conn) = {last.conn}

\* C12: a join-room whose room code is empty changes nothing: the connection
\* joins no room, not even one named by the empty code, its bound identity
\* stays what it was, and no user-joined or room-users packet is sent.
C12_EmptyRoomCodeRejected ==
    /\ Members(EmptyRoom) = {}
    /\ (last.op = "join-room" /\ last.room = EmptyRoom /\ last.user /= NoUser)
          => /\ userInfo[last.conn] = last.prev
             /\ \A d \in SocketIds : NumReceived(d, "user-joined") = 0
                                     /\ NumReceived(d, "room-users") = 0

\* C18: a join-room without its user record leaves the broker running, is
\* answered by exactly one error packet, sent to the connection that made
\* the request, and writes nothing to any other connection.
C18_MalformedRequestAnswered ==
    /\ up
    /\ (last.op = "join-room" /\ last.user = NoUser)
          => /\ NumReceived(last.conn, "error") = 1
             /\ BagCardinality(sent) = 1

\* C14: when a connection joins room R under the userId of another member
\* of R, the room-users reply holds one entry for each of the connections of
\* that userId, and a peer of R bound to another user, whose roster already
\* held an entry of that userId, holds two entries of it after the
\* user-joined notice.
C14_RosterEntryPerConnection ==
    [][ last'.op = "join-room" =>
          LET R == last'.room
              b == last'.conn
              U == last'.user.id
              Same == { a \in rooms'[R] : userInfo'[a].id = U }
          IN /\ { e.socketId : e \in { x \in UNION { m.msg.users : m \in PacketsTo(sent', b, "room-users") } :
                                         x.userId = U } } = Same
             /\ \A p \in rooms[R] \ {b} :
                   ( /\ currentRoom[p] = R
                     /\ userInfo[p].id /= U
                     /\ Same \ {p, b} /= {}
                     /\ \E e \in roomUsers[p] : e.userId = U )
                   => Cardinality({ e \in roomUsers'[p] : e.userId = U }) >= 2 ]_vars

\* the page-changed packets written to socket d for requests of socket a,
\* as positions of outQ[d]
PageChangedFrom(d, a) ==
    { i \in DOMAIN outQ[d] : outQ[d][i].from = a /\ outQ[d][i].msg.event = "page-changed" }

\* C15: the client of socket a numbers its page-change requests in the order
\* it emits them; every peer d is handed the page-changed packets of a in
\* that order, each request at most once.
C15_PerSenderOrderKept ==
    \A d \in SocketIds, a \in SocketIds :
       \A i \in PageChangedFrom(d, a), j \in PageChangedFrom(d, a) :
          i < j => outQ[d][i].msg.pageNumber < outQ[d][j].msg.pageNumber

\* a peer has been handed two page-changed packets of one sender with a
\* packet of another sender's request between them
C15_Witness ==
    \E d \in SocketIds, a \in SocketIds :
       \E i \in PageChangedFrom(d, a), j \in PageChangedFrom(d, a) :
          /\ i < j
          /\ \E k \in DOMAIN outQ[d] : i < k /\ k < j /\ outQ[d][k].from \notin {a, d}

\* ---- the client adapter: what the claims say of it ------------------------
\* the adapter states of the specification, read from a hook state
InRoom(h) == h.currentRoom /= NullRoom
Disconnected(h) == ~h.isConnected /\ ~h.isConnecting
EmitOps == {"emitPageChange", "emitCursorMove", "emitComment"}

\* C21: emitPageChange, emitCursorMove and emitComment called while
\* currentRoom is unset hand nothing to the socket and leave the hook state
\* as it was.
C21_EmitOnlyInRoom ==
    (call.op \in EmitOps /\ ~InRoom(call.before))
       => (call.sent = NoRequest /\ hook = call.before)

\* C22: joinRoom called while the adapter is not connected emits nothing and
\* sets no currentRoom, and a set currentRoom implies isConnected.
C22_JoinOnlyWhenConnected ==
    /\ (call.op = "joinRoom" /\ ~call.before.isConnected)
          => (call.sent = NoRequest /\ hook.currentRoom = call.before.currentRoom)
    /\ InRoom(hook) => hook.isConnected

\* C23: connect by a signed-in user takes a Disconnected adapter to
\* Connecting; the handshake's success makes it connected with no error,
\* its failure Disconnected with an error, and from there connect takes it
\* to Connecting again.
C23_ConnectRetryable ==
    /\ (call.op = "initializeSocket" /\ call.before.user /\ Disconnected(call.before))
          => (hook.isConnecting /\ ~hook.isConnected)
    /\ call.op = "signIn" => (hook.isConnecting /\ ~hook.isConnected)
    /\ call.op = "connect"
          => (hook.isConnected /\ ~hook.isConnecting /\ hook.error = NoError)
    /\ call.op = "connect_error" => (Disconnected(hook) /\ hook.error /= NoError)

\* C24: after the drop of a connected adapter's connection, which the socket
\* goes on to repair, the adapter is Connecting: it reports isConnecting and
\* is not Disconnected, the state of an adapter after cleanup.
C24_DropFallsBackToConnecting ==
    (call.op = "disconnect" /\ call.before.isConnected /\ link = "reconnecting")
       => (hook.isConnecting /\ ~Disconnected(hook))

\* C25: for one packet that arrives, no callback is run more than once.
C25_CallbackOncePerPacket ==
    \A cb \in Callbacks : Cardinality({ i \in DOMAIN invoked : invoked[i] = cb }) <= 1

\* C26: while currentRoom is unset the adapter's roomUsers is empty.
C26_NoRosterOutsideRoom ==
    ~InRoom(hook) => hook.roomUsers = {}

\* C27: with every packet handled, the roster of a client whose current room
\* is R holds, for each user id, as many entries as R has member connections
\* bound to that user id.
C27_RosterMatchesMembers ==
    \A p \in sockets, R \in RoomCodes, uid \in UserIds :
       currentRoom[p] = R =>
          Cardinality({ e \in roomUsers[p] : e.userId = uid })
             = Cardinality({ m \in Members(R) : userInfo[m].id = uid })

\* C28: isConnecting is reported only while a socket's handshake is pending,
\* never together with isConnected, and never after cleanup.
C28_ConnectingMeansHandshakePending ==
    /\ hook.isConnecting => (hook.socket /\ link \in {"opening", "reconnecting"})
    /\ ~(hook.isConnected /\ hook.isConnecting)
    /\ call.op = "signOut" => ~hook.isConnecting

\* C29: a page-change, cursor-move or comment-added request handed to the
\* socket names the adapter's currentRoom.
C29_EmitNamesCurrentRoom ==
    (call.op \in EmitOps /\ call.sent /= NoRequest /\ InRoom(call.before))
       => call.sent.roomCode = call.before.currentRoom

\* ---- the PDF viewing state: what the claim says of it ----------------------
\* currentPage is a page of the document as far as its page count is known
PageInRange(p) ==
    /\ p.currentPage >= 1
    /\ p.numPages /= NullPages => p.currentPage <= p.numPages

\* the last operation was a goToPage before the page count was known or to
\* a page outside 1..numPages
GoToPageRefused ==
    /\ pdfCall.op = "goToPage"
    /\ \/ pdfCall.before.numPages = NullPages
       \/ pdfCall.arg < 1
       \/ pdfCall.arg > pdfCall.before.numPages

TypeOK ==
    /\ sockets \subseteq SocketIds
    /\ \A r \in RoomCodes : Members(r) \subseteq sockets
    /\ \A c \in SocketIds : currentRoom[c] \in RoomCodes \cup {NoRoom}
====
